---- MODULE Spec2Model ----
(***************************************************************************)
(* A model of commitstats: the commit discoveries of services.py (the      *)
(* fetch-and-cache layer and the clone-based scan) and the report script   *)
(* update.py (its own cache test, the two aggregations and the driver).    *)
(*                                                                         *)
(* Time is counted in whole hours.  A Python list is PyList(s), a Python   *)
(* dict is PyDict(s) with s its items in insertion order; a file's content *)
(* is a text, tagged with what was written into it.                        *)
(***************************************************************************)
EXTENDS Naturals, Sequences, FiniteSets

VARIABLES
    now,        \* the wall clock (datetime.now()), in hours
    fs,         \* the filesystem: path -> file
    call,       \* cache layer: the most recent get_commits() call
    lastFetch,  \* cache layer: per discovery, the last successful fetch_commits()
    user_emails,    \* clone discovery: the author aliases, a list
    history,        \* clone discovery: repository -> alias -> what git log prints
    workspace,      \* clone discovery: the paths that hold a local clone
    fetch,          \* clone discovery: BitbucketDiscovery.fetch_commits() under way
    stats,      \* update.py: an aggregation's argument and what it gave
    run         \* update.py: the run of the script

cacheVars == <<call, lastFetch>>
cloneVars == <<user_emails, history, workspace, fetch>>
vars ==
    <<now, fs, call, lastFetch, user_emails, history, workspace, fetch, stats,
      run>>

----------------------------------------------------------------------------
(* Bounds *)

MaxNow == 13        \* the clock stops advancing here
MaxFetched == 2     \* the longest list fetch_commits() hands back
MaxAliases == 2     \* the longest list of author aliases
MaxRecords == 2     \* the most commit records handed to an aggregation

----------------------------------------------------------------------------
(* Python values and JSON texts *)

PyList(s) == [type |-> "list", body |-> s]
PyDict(s) == [type |-> "dict", body |-> s]

\* json.dumps(value, indent=4): a list becomes an array, a dict an object
JsonDumps(v) ==
    IF v.type = "list"
    THEN [fmt |-> "json-array", body |-> v.body]
    ELSE [fmt |-> "json-object", body |-> v.body]

\* an exception of the given class, raised instead of a value
Raise(class) == [type |-> class, body |-> <<>>]
IsRaise(v) == v.type \notin {"list", "dict"}

None == "<None>"

\* json.loads(text): an array becomes a list, an object a dict; anything else
\* is no JSON document
JsonLoads(t) ==
    IF t.fmt = "json-array" THEN PyList(t.body)
    ELSE IF t.fmt = "json-object" THEN PyDict(t.body)
    ELSE Raise("JSONDecodeError")

\* left + right: defined for two lists, a TypeError for a dict on either side
Add(left, right) ==
    IF left.type = "list" /\ right.type = "list"
    THEN PyList(left.body \o right.body)
    ELSE Raise("TypeError")

\* datetime.fromtimestamp(ts), ts in hours since the epoch: the calendar day
\* and the hour of the day
fromtimestamp(ts) == [day |-> ts \div 24, hour |-> ts % 24]

\* datetime.isoformat(): the text "<day>T<hour>"
isoformat(dt) == [iso |-> TRUE, day |-> dt.day, hour |-> dt.hour]

\* a text that is no timestamp
Malformed == [iso |-> FALSE, day |-> 0, hour |-> 0]

\* dateutil.parser.parse(text): the datetime the text spells
parse(text) ==
    IF text.iso THEN [type |-> "datetime", day |-> text.day, hour |-> text.hour]
    ELSE [type |-> "ParserError", day |-> 0, hour |-> 0]

\* datetime.date().isoformat(): the calendar day alone
date_isoformat(dt) == dt.day

----------------------------------------------------------------------------
(* Files *)

GH_COMMITS_FILENAME == "cache/github_commits.json"
BB_COMMITS_FILENAME == "cache/bitbucket_commits.json"
DAILY_STATS_FILENAME == "cache/daily_stats.csv"

Paths == {GH_COMMITS_FILENAME, BB_COMMITS_FILENAME, DAILY_STATS_FILENAME}

EmptyText == [fmt |-> "empty", body |-> <<>>]
Absent == [exists |-> FALSE, mtime |-> 0, content |-> EmptyText]

\* os.path.exists(path)
PathExists(path) == fs[path].exists

WriteFile_append(path, text) ==
    [fs EXCEPT ![path] =
        [exists |-> TRUE, mtime |-> now,
         content |-> IF fs[path].content.fmt = text.fmt
                     THEN [text EXCEPT !.body = fs[path].content.body \o @]
                     ELSE text]]

\* open(path, 'w') followed by file.write(text): the file holds text alone
WriteFile(path, text) ==
    [fs EXCEPT ![path] = [exists |-> TRUE, mtime |-> now, content |-> text]]

\* open(path, 'w') alone: the file is created or truncated
TruncateFile(path) == WriteFile(path, EmptyText)

----------------------------------------------------------------------------
(* services.py: BaseCommitDiscovery *)

Discoveries == {"GithubDiscovery", "BitbucketDiscovery"}

cache_file(d) ==
    IF d = "GithubDiscovery" THEN GH_COMMITS_FILENAME ELSE BB_COMMITS_FILENAME

reload_after == 12

\* Commit records as a discovery hands them back (the fields the
\* aggregations read, and the hash).
CommitPool ==
    << [datetime |-> isoformat(fromtimestamp(34)), hash |-> "h1",
        public |-> TRUE, repo |-> "me/app"],
       [datetime |-> isoformat(fromtimestamp(47)), hash |-> "h2",
        public |-> TRUE, repo |-> "me/app"],
       [datetime |-> isoformat(fromtimestamp(49)), hash |-> "h3",
        public |-> FALSE, repo |-> "team/lib"],
       [datetime |-> isoformat(fromtimestamp(80)), hash |-> "h4",
        public |-> FALSE, repo |-> "team/lib"] >>

\* What fetch_commits() of a concrete discovery can do: hand back a list of
\* commit records, or raise (the API or the VCS call failed).
FetchRaises == [type |-> "raise", body |-> <<>>]
FetchLists == {PyList(SubSeq(CommitPool, 1, n)) : n \in 0..MaxFetched}
FetchOutcomes == FetchLists \cup {FetchRaises}

cached_exists(d) == PathExists(cache_file(d))

cache_is_fresh_le(d) == now - fs[cache_file(d)].mtime <= reload_after

cache_is_fresh(d) == now - fs[cache_file(d)].mtime < reload_after

NoValue == [type |-> "none", body |-> <<>>]
NoFetch == [value |-> NoValue, at |-> 0]
NoCall ==
    [disc |-> "none", at |-> 0, before |-> Absent, prior |-> NoFetch,
     fetches |-> 0, outcome |-> "none", value |-> NoValue]

\* The call record of get_commits() on d: what it found, how often it invoked
\* fetch_commits(), how it ended and what it returned.
CallOf(d, fetches, outcome, value) ==
    [disc |-> d, at |-> now, before |-> fs[cache_file(d)],
     prior |-> lastFetch[d], fetches |-> fetches, outcome |-> outcome,
     value |-> value]

\* lines 38-40: the cache is there and fresh; it is read and returned
CacheHit(d) ==
    /\ call' = CallOf(d, 0, "returned", JsonLoads(fs[cache_file(d)].content))
    /\ UNCHANGED <<fs, lastFetch>>

FetchRaised_truncated(d) ==
    /\ call' = CallOf(d, 1, "raised", NoValue)
    /\ fs' = TruncateFile(cache_file(d))
    /\ UNCHANGED lastFetch

\* line 42 raises: the exception leaves get_commits() before line 43
FetchRaised(d) ==
    /\ call' = CallOf(d, 1, "raised", NoValue)
    /\ UNCHANGED <<fs, lastFetch>>

FetchReturned_nowrite(d, r) ==
    /\ lastFetch' = [lastFetch EXCEPT ![d] = [value |-> r, at |-> now]]
    /\ call' = CallOf(d, 1, "returned", r)
    /\ UNCHANGED fs

\* lines 42-45: the fetched list is written to the cache file and returned
FetchReturned(d, r) ==
    /\ fs' = WriteFile(cache_file(d), JsonDumps(r))
    /\ lastFetch' = [lastFetch EXCEPT ![d] = [value |-> r, at |-> now]]
    /\ call' = CallOf(d, 1, "returned", r)

\* get_commits() of discovery d
GetCommits(d) ==
    /\ IF cached_exists(d) /\ cache_is_fresh(d)
       THEN CacheHit(d)
       ELSE \E r \in FetchOutcomes :
                IF r = FetchRaises THEN FetchRaised(d) ELSE FetchReturned(d, r)
    /\ UNCHANGED <<now, cloneVars, stats, run>>

\* time passes
Tick ==
    /\ now < MaxNow
    /\ now' = now + 1
    /\ UNCHANGED <<fs, cacheVars, cloneVars, stats, run>>

----------------------------------------------------------------------------
(* services.py: ClonedRepositoryDiscovery and BitbucketDiscovery *)

Repos == {"me/app", "team/lib"}         \* full names on the remote
Teams == {"core", "ops"}
Emails == {"me@home", "me@work"}
Hashes == {"h1", "h2"}

RepositoryRoles == <<"OWNER", "ADMIN", "CONTRIBUTOR", "MEMBER">>
TeamRoles == <<"ADMIN", "CONTRIBUTOR", "MEMBER">>

\* repo.is_private, as the remote reports it
is_private(name) == name = "team/lib"

\* commit.authored_date of a commit, in hours since the epoch
authored_date(rev) == IF rev = "h1" THEN 34 ELSE 47

Range(s) == {s[i] : i \in DOMAIN s}

\* the elements of a finite set in one fixed order
RECURSIVE SetToSeq(_)
SetToSeq(S) ==
    IF S = {} THEN <<>>
    ELSE LET x == CHOOSE y \in S : TRUE IN <<x>> \o SetToSeq(S \ {x})

\* the orders in which a Python set of these elements may be iterated
IterationOrders(S) ==
    {o \in [1..Cardinality(S) -> S] : \A x \in S : \E i \in DOMAIN o : o[i] = x}

AliasLists == UNION {[1..n -> Emails] : n \in 0..MaxAliases}
Histories == [Repos -> [Emails -> SUBSET Hashes]]

repo_dir == "repos"
discovery_dir == "bitbucket"

\* os.path.join(self.repo_dir, self.discovery_dir, name)
get_repo_path(name) == <<repo_dir, discovery_dir, name>>

\* repo_git.log('--all', '--pretty=%H', '--author=<email>').splitlines() in the
\* clone at repo_path
LogLines(repo_path, email) == history[repo_path[3]][email]

\* lines 124-129: revs.update(...) for every alias in turn
RECURSIVE RevsUpTo(_, _)
RevsUpTo(repo_path, n) ==
    IF n = 0 THEN {}
    ELSE RevsUpTo(repo_path, n - 1) \cup LogLines(repo_path, user_emails[n])

Revs(repo_path) == RevsUpTo(repo_path, Len(user_emails))

\* lines 132-140: the record of one revision
CommitData(rev, is_public, name) ==
    [datetime |-> isoformat(fromtimestamp(authored_date(rev))),
     message |-> "msg",
     hash |-> rev,
     public |-> is_public,
     repo |-> name]

\* one record per line that git log printed, alias after alias
RECURSIVE LinesUpTo(_, _, _)
LinesUpTo(repo_path, order, n) ==
    IF n = 0 THEN <<>>
    ELSE LinesUpTo(repo_path, order, n - 1)
            \o SelectSeq(order, LAMBDA h : h \in LogLines(repo_path, user_emails[n]))

get_commits_by_repo_nodedup(repo_path, is_public, name, order) ==
    LET lines == LinesUpTo(repo_path, order, Len(user_emails))
    IN  [i \in 1..Len(lines) |-> CommitData(lines[i], is_public, name)]

\* get_commits_by_repo(repo_path, is_public, name); order is the order in which
\* a Python set of hashes is iterated, so "for rev in revs" walks the hashes
\* of revs in that order
get_commits_by_repo(repo_path, is_public, name, order) ==
    LET revs == Revs(repo_path)
        walk == SelectSeq(order, LAMBDA rev : rev \in revs)
    IN  [i \in 1..Len(walk) |-> CommitData(walk[i], is_public, name)]

NoFetchCommits ==
    [pc |-> "idle", repo_names |-> {}, repos |-> <<>>, commits |-> <<>>,
     scans |-> <<>>]

\* What the remote can answer to Team.find_teams_for_role and to
\* team.repositories() (the Repository objects among them).
TeamAnswers == [teams_for_role : [Range(TeamRoles) -> SUBSET Teams],
                repositories : [Teams -> SUBSET Repos]]

\* What the remote can answer to Repository.find_my_repositories_by_role.
RoleAnswers == [Range(RepositoryRoles) -> SUBSET Repos]

\* itertools.chain over the answers for roles[1..n], each repository tagged
\* with the role that listed it
RECURSIVE ChainUpTo(_, _, _)
ChainUpTo(roles, answer, n) ==
    IF n = 0 THEN <<>>
    ELSE ChainUpTo(roles, answer, n - 1)
            \o LET listed == SetToSeq(answer[roles[n]])
               IN  [i \in 1..Len(listed) |-> [via |-> roles[n], name |-> listed[i]]]

\* lines 160-175: the teams of every team role, chained; the full names of
\* their repositories, collected in a set; one Repository looked up per name
EnumerateTeams ==
    /\ fetch.pc = "teams"
    /\ \E a \in TeamAnswers :
         LET teams == ChainUpTo(TeamRoles, a.teams_for_role, Len(TeamRoles))
             names == UNION {a.repositories[teams[i].name] : i \in DOMAIN teams}
         IN  fetch' = [fetch EXCEPT !.pc = "repos", !.repo_names = names]
    /\ UNCHANGED <<now, fs, cacheVars, user_emails, history, workspace, stats, run>>

\* lines 172-187: repos = chain(OWNER, ADMIN, CONTRIBUTOR, MEMBER, team_repos)
ListRepositories ==
    /\ fetch.pc = "repos"
    /\ \E a \in RoleAnswers :
         LET names == SetToSeq(fetch.repo_names)
             team_repos == [i \in 1..Len(names) |-> [via |-> "team", name |-> names[i]]]
         IN  fetch' = [fetch EXCEPT
                 !.pc = "scan",
                 !.repos = ChainUpTo(RepositoryRoles, a, Len(RepositoryRoles))
                              \o team_repos]
    /\ UNCHANGED <<now, fs, cacheVars, user_emails, history, workspace, stats, run>>

\* lines 189-201: one turn of "for repo in repos": pull the clone or make it,
\* scan it, extend commits with its records
ScanNext ==
    /\ fetch.pc = "scan"
    /\ fetch.repos # <<>>
    /\ LET repo == Head(fetch.repos)
           is_public == ~is_private(repo.name)
           repo_name == repo.name
           repo_path == get_repo_path(repo_name)
       IN  /\ workspace' = workspace \cup {repo_path}
           /\ \E order \in IterationOrders(Hashes) :
                LET records == get_commits_by_repo(repo_path, is_public,
                                                   repo_name, order)
                IN  fetch' = [fetch EXCEPT
                        !.repos = Tail(@),
                        !.commits = @ \o records,
                        !.scans = Append(@,
                            [repo |-> repo_name, via |-> repo.via,
                             public |-> is_public,
                             op |-> IF repo_path \in workspace
                                    THEN "pull" ELSE "clone",
                             records |-> records])]
    /\ UNCHANGED <<now, fs, cacheVars, user_emails, history, stats, run>>

\* line 203: return commits
ReturnCommits ==
    /\ fetch.pc = "scan"
    /\ fetch.repos = <<>>
    /\ fetch' = [fetch EXCEPT !.pc = "done"]
    /\ UNCHANGED <<now, fs, cacheVars, user_emails, history, workspace, stats, run>>

----------------------------------------------------------------------------
(* update.py: the aggregations *)

\* stats[key] += 1 on a defaultdict(lambda: 0): a new key is appended with 1
Increment(counts, key) ==
    IF \E i \in DOMAIN counts : counts[i].key = key
    THEN [i \in DOMAIN counts |->
            IF counts[i].key = key
            THEN [counts[i] EXCEPT !.value = @ + 1]
            ELSE counts[i]]
    ELSE Append(counts, [key |-> key, value |-> 1])

\* lines 156-157 for the first n items of the dict
RECURSIVE ProjectStatsUpTo(_, _)
ProjectStatsUpTo(items, n) ==
    IF n = 0 THEN PyDict(<<>>)
    ELSE LET sofar == ProjectStatsUpTo(items, n - 1)
             commit == items[n].value
         IN  IF IsRaise(sofar) THEN sofar
             ELSE IF "repo" \notin DOMAIN commit THEN Raise("KeyError")
             ELSE PyDict(Increment(sofar.body, commit.repo))

\* get_project_stats(commits): commits.items() is there on a dict alone
get_project_stats(commits) ==
    IF commits.type # "dict" THEN Raise("AttributeError")
    ELSE ProjectStatsUpTo(commits.body, Len(commits.body))

\* lines 169-172 for the first n items of the dict
RECURSIVE DailyStatsUpTo(_, _)
DailyStatsUpTo(items, n) ==
    IF n = 0 THEN PyDict(<<>>)
    ELSE LET sofar == DailyStatsUpTo(items, n - 1)
             commit == items[n].value
             parsed == parse(commit.datetime)
         IN  IF IsRaise(sofar) THEN sofar
             ELSE IF parsed.type # "datetime" THEN Raise(parsed.type)
             ELSE PyDict(Increment(sofar.body, date_isoformat(parsed)))

\* get_daily_stats(commits): commits.items() is there on a dict alone
get_daily_stats(commits) ==
    IF commits.type # "dict" THEN Raise("AttributeError")
    ELSE DailyStatsUpTo(commits.body, Len(commits.body))

\* The commit records an aggregation may be handed: every timestamp of the
\* pool or a malformed one; a repository name, None, or no "repo" key at all.
StatsDatetimes == {CommitPool[i].datetime : i \in DOMAIN CommitPool} \cup {Malformed}
StatsRecords ==
    [datetime : StatsDatetimes, repo : {"me/app", "team/lib", None}]
        \cup [datetime : StatsDatetimes]

HashKeys == <<"h1", "h2", "h3", "h4">>

\* a list of records, and the dict that keys the same records by hash
StatsLists == UNION {[1..n -> StatsRecords] : n \in 0..MaxRecords}
AsList(records) == PyList(records)
AsDict(records) ==
    PyDict([i \in DOMAIN records |-> [key |-> HashKeys[i], value |-> records[i]]])

NoStats == [pc |-> "idle", commits |-> PyList(<<>>), result |-> PyDict(<<>>)]

CallDailyStats ==
    /\ stats.pc = "input"
    /\ stats' = [stats EXCEPT !.pc = "daily",
                              !.result = get_daily_stats(stats.commits)]
    /\ UNCHANGED <<now, fs, cacheVars, cloneVars, run>>

CallProjectStats ==
    /\ stats.pc = "input"
    /\ stats' = [stats EXCEPT !.pc = "project",
                              !.result = get_project_stats(stats.commits)]
    /\ UNCHANGED <<now, fs, cacheVars, cloneVars, run>>

----------------------------------------------------------------------------
(* update.py: the cache test and the script *)

RELOAD_AFTER == 6

\* age_of_file(filename): None without the file, else now - st_mtime
age_of_file(filename) ==
    IF ~PathExists(filename) THEN None ELSE now - fs[filename].mtime

cached_file_exists(filename) ==
    PathExists(filename) /\ age_of_file(filename) < RELOAD_AFTER

\* commits keyed by commit.hexsha, as get_bitbucket_commits builds them
KeyedByHash(records) ==
    PyDict([i \in DOMAIN records |->
               [key |-> records[i].hash, value |-> records[i]]])

\* get_bitbucket_commits(...) hands back a dict keyed by hash, or raises
BitbucketOutcomes ==
    {KeyedByHash(SubSeq(CommitPool, 1, n)) : n \in 0..MaxFetched}
        \cup {FetchRaises}

\* get_github_commits(...) hands back a list, or raises
GithubOutcomes == FetchLists \cup {FetchRaises}

\* the rows csv.writer writes: the header, then one row per item of data
CsvText(data) ==
    [fmt |-> "csv",
     body |-> <<[cells |-> <<"date", "commits">>]>>
                \o [i \in DOMAIN data.body |->
                       [cells |-> <<data.body[i].key, data.body[i].value>>]]]

\* an uncaught exception ends the script
Crashed(class, where) ==
    [run EXCEPT !.pc = "crashed", !.error = [class |-> class, in |-> where]]

\* lines 178-188
DealWithBitbucket ==
    /\ run.pc = "bitbucket"
    /\ IF cached_file_exists(BB_COMMITS_FILENAME)
       THEN LET loaded == JsonLoads(fs[BB_COMMITS_FILENAME].content)
            IN  /\ run' = IF IsRaise(loaded)
                          THEN Crashed(loaded.type, "json.loads")
                          ELSE [run EXCEPT !.pc = "github",
                                           !.bitbucket_commits = loaded]
                /\ UNCHANGED fs
       ELSE \E r \in BitbucketOutcomes :
                IF r = FetchRaises
                THEN /\ run' = Crashed("Exception", "get_bitbucket_commits")
                     /\ UNCHANGED fs
                ELSE /\ fs' = WriteFile(BB_COMMITS_FILENAME, JsonDumps(r))
                     /\ run' = [run EXCEPT
                            !.pc = "github",
                            !.bitbucket_commits = r,
                            !.fetched = @ \cup {BB_COMMITS_FILENAME}]
    /\ UNCHANGED <<now, cacheVars, cloneVars, stats>>

\* lines 191-200
DealWithGithub ==
    /\ run.pc = "github"
    /\ IF cached_file_exists(GH_COMMITS_FILENAME)
       THEN LET loaded == JsonLoads(fs[GH_COMMITS_FILENAME].content)
            IN  /\ run' = IF IsRaise(loaded)
                          THEN Crashed(loaded.type, "json.loads")
                          ELSE [run EXCEPT !.pc = "concatenate",
                                           !.github_commits = loaded]
                /\ UNCHANGED fs
       ELSE \E r \in GithubOutcomes :
                IF r = FetchRaises
                THEN /\ run' = Crashed("Exception", "get_github_commits")
                     /\ UNCHANGED fs
                ELSE /\ fs' = WriteFile(GH_COMMITS_FILENAME, JsonDumps(r))
                     /\ run' = [run EXCEPT
                            !.pc = "concatenate",
                            !.github_commits = r,
                            !.fetched = @ \cup {GH_COMMITS_FILENAME}]
    /\ UNCHANGED <<now, cacheVars, cloneVars, stats>>

\* line 203: all_commits = bitbucket_commits + github_commits
Concatenate ==
    /\ run.pc = "concatenate"
    /\ LET all_commits == Add(run.bitbucket_commits, run.github_commits)
       IN  run' = IF IsRaise(all_commits)
                  THEN Crashed(all_commits.type, "+")
                  ELSE [run EXCEPT !.pc = "open", !.all_commits = all_commits]
    /\ UNCHANGED <<now, fs, cacheVars, cloneVars, stats>>

\* line 204: with open('cache/daily_stats.csv', 'w') as csv_file
OpenDailyStats ==
    /\ run.pc = "open"
    /\ fs' = TruncateFile(DAILY_STATS_FILENAME)
    /\ run' = [run EXCEPT !.pc = "daily"]
    /\ UNCHANGED <<now, cacheVars, cloneVars, stats>>

\* lines 205-208, inside the with block; the script ends after them
SaveDailyStats ==
    /\ run.pc = "daily"
    /\ LET data == get_daily_stats(run.all_commits)
       IN  IF IsRaise(data)
           THEN /\ run' = Crashed(data.type, "get_daily_stats")
                /\ UNCHANGED fs
           ELSE /\ fs' = WriteFile(DAILY_STATS_FILENAME, CsvText(data))
                /\ run' = [run EXCEPT !.pc = "done", !.data = data]
    /\ UNCHANGED <<now, cacheVars, cloneVars, stats>>

----------------------------------------------------------------------------
(* Specifications *)

CacheIdle ==
    /\ call = NoCall
    /\ lastFetch = [d \in Discoveries |-> NoFetch]

NoRun ==
    [pc |-> "idle", bitbucket_commits |-> NoValue, github_commits |-> NoValue,
     all_commits |-> NoValue, data |-> NoValue, fetched |-> {},
     error |-> [class |-> "none", in |-> "none"],
     before |-> [p \in Paths |-> Absent]]

CloneIdle ==
    /\ user_emails = <<>>
    /\ history = [r \in Repos |-> [e \in Emails |-> {}]]
    /\ workspace = {}
    /\ fetch = NoFetchCommits

\* The cache layer of services.py: get_commits() calls as time passes.
Init ==
    /\ now = 0
    /\ fs = [p \in Paths |-> Absent]
    /\ CacheIdle
    /\ CloneIdle
    /\ stats = NoStats
    /\ run = NoRun

Next ==
    \/ Tick
    \/ \E d \in Discoveries : GetCommits(d)

Spec == Init /\ [][Next]_vars

\* The scan of one cloned repository, for every alias list and history.
InitScan ==
    /\ now = 0
    /\ fs = [p \in Paths |-> Absent]
    /\ CacheIdle
    /\ user_emails \in AliasLists
    /\ history \in Histories
    /\ workspace \in SUBSET {get_repo_path(r) : r \in Repos}
    /\ \E r \in Repos :
         fetch = [NoFetchCommits EXCEPT
                     !.pc = "scan", !.repos = <<[via |-> "OWNER", name |-> r]>>]
    /\ stats = NoStats
    /\ run = NoRun

NextScan ==
    \/ ScanNext
    \/ ReturnCommits

SpecScan == InitScan /\ [][NextScan]_vars

\* BitbucketDiscovery.fetch_commits() from its first line, for every answer of
\* the remote; the aliases are two and "team/lib" is a fork sharing h1.
FetchHistories ==
    {h \in Histories :
        /\ h["team/lib"] = [e \in Emails |-> IF e = "me@work" THEN {"h1"} ELSE {}]
        /\ h["me/app"]["me@work"] = {"h2"}}

InitFetch ==
    /\ now = 0
    /\ fs = [p \in Paths |-> Absent]
    /\ CacheIdle
    /\ user_emails = <<"me@home", "me@work">>
    /\ history \in FetchHistories
    /\ workspace \in {{}, {get_repo_path("me/app")}}
    /\ fetch = [NoFetchCommits EXCEPT !.pc = "teams"]
    /\ stats = NoStats
    /\ run = NoRun

NextFetch ==
    \/ EnumerateTeams
    \/ ListRepositories
    \/ ScanNext
    \/ ReturnCommits

SpecFetch == InitFetch /\ [][NextFetch]_vars

\* The two aggregations, each applied to every argument.
InitStats ==
    /\ now = 0
    /\ fs = [p \in Paths |-> Absent]
    /\ CacheIdle
    /\ CloneIdle
    /\ \E records \in StatsLists, shape \in {"list", "dict"} :
         stats = [NoStats EXCEPT
                     !.pc = "input",
                     !.commits = IF shape = "list" THEN AsList(records)
                                 ELSE AsDict(records)]
    /\ run = NoRun

NextStats ==
    \/ CallDailyStats
    \/ CallProjectStats

SpecStats == InitStats /\ [][NextStats]_vars

\* One run of update.py, from every state of its three files: each cache
\* file absent, or written one hour less than, exactly, or one hour more than
\* RELOAD_AFTER ago by update.py (Bitbucket: a dict) or by the discoveries of
\* services.py (lists); the daily statistics absent or left by an earlier run.
CacheAges == {RELOAD_AFTER - 1, RELOAD_AFTER, RELOAD_AFTER + 1}

CacheFiles(outcomes) ==
    {Absent} \cup
    {[exists |-> TRUE, mtime |-> MaxNow - age, content |-> JsonDumps(r)] :
        age \in CacheAges, r \in outcomes \ {FetchRaises}}

EarlierDailyStats ==
    [exists |-> TRUE, mtime |-> 0,
     content |-> CsvText(PyDict(<<[key |-> 1, value |-> 2]>>))]

InitRun ==
    /\ now = MaxNow
    /\ \E bb \in CacheFiles(BitbucketOutcomes \cup FetchLists),
          gh \in CacheFiles(GithubOutcomes),
          daily \in {Absent, EarlierDailyStats} :
         fs = [p \in Paths |->
                  IF p = BB_COMMITS_FILENAME THEN bb
                  ELSE IF p = GH_COMMITS_FILENAME THEN gh
                  ELSE daily]
    /\ CacheIdle
    /\ CloneIdle
    /\ stats = NoStats
    /\ run = [NoRun EXCEPT !.pc = "bitbucket", !.before = fs]

NextRun ==
    \/ DealWithBitbucket
    \/ DealWithGithub
    \/ Concatenate
    \/ OpenDailyStats
    \/ SaveDailyStats

SpecRun == InitRun /\ [][NextRun]_vars

----------------------------------------------------------------------------
(* Claims about the cache layer, under Spec *)

Called == call.disc \in Discoveries
CallFile == fs[cache_file(call.disc)]
FoundFresh == call.before.exists /\ call.at - call.before.mtime < reload_after

\* C1: with a cache file of modification time t, get_commits() returns the
\* deserialized cache content without invoking fetch_commits() if and only if
\* now - t < reload_after (strictly); otherwise it invokes fetch_commits() and
\* the list it hands back overwrites the cache file.
C1_FreshIffNoFetch ==
    (Called /\ call.before.exists) =>
        /\ (call.fetches = 0) <=> FoundFresh
        /\ FoundFresh =>
              /\ call.outcome = "returned"
              /\ call.value = JsonLoads(call.before.content)
              /\ CallFile = call.before
        /\ (~FoundFresh) =>
              /\ call.fetches = 1
              /\ call.outcome = "returned" =>
                    /\ CallFile.exists
                    /\ CallFile.mtime = call.at
                    /\ CallFile.content = JsonDumps(call.value)

\* a cache exactly reload_after old was found, refetched and overwritten
C1_Witness ==
    /\ Called /\ call.before.exists
    /\ call.at - call.before.mtime = reload_after
    /\ call.fetches = 1 /\ call.outcome = "returned"
    /\ CallFile.content # call.before.content

\* C2: with no cache file, get_commits() invokes fetch_commits() exactly once,
\* creates the cache file, and the new file's content is exactly the value
\* fetch_commits() returned, which get_commits() returns too.
C2_AbsentFetchesOnce ==
    (Called /\ ~call.before.exists) =>
        /\ call.fetches = 1
        /\ call.outcome = "returned" =>
              /\ CallFile.exists
              /\ JsonLoads(CallFile.content) = call.value
              /\ lastFetch[call.disc] = [value |-> call.value, at |-> call.at]

C2_Witness ==
    /\ Called /\ ~call.before.exists
    /\ call.outcome = "returned" /\ Len(call.value.body) = MaxFetched
    /\ CallFile.exists

\* C3: the cache file always holds exactly the result of the most recent
\* successful fetch_commits() (replaced wholesale, never merged), and every
\* get_commits() made less than reload_after after that fetch returns that
\* result without fetching again.
C3_CacheIsLastFetch ==
    /\ \A d \in Discoveries :
          /\ fs[cache_file(d)].exists <=> lastFetch[d] # NoFetch
          /\ fs[cache_file(d)].exists =>
                /\ fs[cache_file(d)].content = JsonDumps(lastFetch[d].value)
                /\ JsonLoads(fs[cache_file(d)].content) = lastFetch[d].value
    /\ (Called /\ call.prior # NoFetch
            /\ call.at - call.prior.at < reload_after) =>
          /\ call.fetches = 0
          /\ call.outcome = "returned"
          /\ call.value = call.prior.value
          /\ lastFetch[call.disc] = call.prior

\* a stale cache of two commits was replaced by a fetch of one
C3_Witness ==
    /\ Called /\ call.before.exists /\ call.fetches = 1
    /\ call.outcome = "returned"
    /\ Len(call.before.content.body) = 2
    /\ CallFile.content.body = <<CommitPool[1]>>

\* C10: when fetch_commits() raises, get_commits() raises after that one
\* invocation and the cache is as it was: none is created, a stale one keeps
\* its content and modification time; the next get_commits() fetches again.
C10_FailureLeavesCache ==
    /\ [](call.outcome = "raised" =>
            /\ call.fetches = 1
            /\ ~FoundFresh
            /\ CallFile = call.before)
    /\ [][(call.outcome = "raised" /\ call' # call /\ call'.disc = call.disc)
             => call'.fetches = 1]_vars

\* a fetch over a stale cache raised
C10_Witness ==
    /\ call.outcome = "raised"
    /\ call.before.exists
    /\ call.before.content.body # <<>>

----------------------------------------------------------------------------
(* Claims about the clone-based scan *)

AliasHashes(name) == UNION {history[name][e] : e \in Range(user_emails)}
HashesOf(records) == {records[i].hash : i \in DOMAIN records}

\* C4: for every repository and every list of author aliases, a scan emits
\* exactly one record per distinct commit hash in the union of the per-alias
\* hash sets of that repository: a hash matched by two aliases yields one.
C4_OneRecordPerHash ==
    \A k \in DOMAIN fetch.scans :
        LET scan == fetch.scans[k] IN
        /\ HashesOf(scan.records) = AliasHashes(scan.repo)
        /\ \A h \in AliasHashes(scan.repo) :
              Cardinality({i \in DOMAIN scan.records :
                              scan.records[i].hash = h}) = 1
        /\ \A i \in DOMAIN scan.records :
              /\ scan.records[i].repo = scan.repo
              /\ scan.records[i].public = scan.public

\* two different aliases both matched h1, and the scan emitted h1 and h2
C4_Witness ==
    /\ Len(user_emails) = 2 /\ user_emails[1] # user_emails[2]
    /\ \E k \in DOMAIN fetch.scans :
          /\ "h1" \in history[fetch.scans[k].repo][user_emails[1]]
          /\ "h1" \in history[fetch.scans[k].repo][user_emails[2]]
          /\ Len(fetch.scans[k].records) = 2

\* C5: the repositories fetch_commits() enumerates and scans are deduplicated
\* by full name: a repository reachable through several roles and/or several
\* teams is cloned or pulled and scanned exactly once, and its commits are
\* contributed to the result exactly once.
C5_EachRepoScannedOnce ==
    /\ \A r \in Repos :
          Cardinality({k \in DOMAIN fetch.scans : fetch.scans[k].repo = r}) <= 1
    /\ \A r \in Repos, h \in Hashes :
          Cardinality({i \in DOMAIN fetch.commits :
                          /\ fetch.commits[i].repo = r
                          /\ fetch.commits[i].hash = h}) <= 1

----------------------------------------------------------------------------
(* Claims about the aggregations, under SpecStats *)

\* the records of the collection handed to the aggregation
InputRecords ==
    IF stats.commits.type = "dict"
    THEN [i \in DOMAIN stats.commits.body |-> stats.commits.body[i].value]
    ELSE stats.commits.body

RECURSIVE SumValues(_, _)
SumValues(items, n) ==
    IF n = 0 THEN 0 ELSE SumValues(items, n - 1) + items[n].value

Parsable(record) == parse(record.datetime).type = "datetime"
Attributed(record) == "repo" \in DOMAIN record /\ record.repo # None

\* the calendar date of each record, and the project of each that has one
InputDates == [k \in DOMAIN InputRecords |-> parse(InputRecords[k].datetime).day]
InputProjects ==
    [k \in DOMAIN InputRecords |->
        IF Attributed(InputRecords[k]) THEN InputRecords[k].repo ELSE None]

\* result is a mapping that holds, for each key other than skip, the number of
\* records with that key, and nothing else
CountsAre(result, keys, skip) ==
    /\ result.type = "dict"
    /\ \A i \in DOMAIN result.body :
          /\ result.body[i].key # skip
          /\ result.body[i].value =
                Cardinality({k \in DOMAIN keys : keys[k] = result.body[i].key})
    /\ \A k \in DOMAIN keys :
          keys[k] # skip =>
              \E i \in DOMAIN result.body : result.body[i].key = keys[k]
    /\ SumValues(result.body, Len(result.body)) =
          Cardinality({k \in DOMAIN keys : keys[k] # skip})

\* C6: for every collection of commit records with parsable datetimes, the
\* unified list of the discoveries' records included, get_daily_stats returns
\* a mapping whose value at each date is the number of records of that date,
\* so the values sum to the number of records.
C6_DailyCounts ==
    (stats.pc = "daily" /\ \A k \in DOMAIN InputRecords : Parsable(InputRecords[k]))
        => CountsAre(stats.result, InputDates, 0)

\* the same for the collections that are dicts keyed by hash
C6_DailyCountsOfDict ==
    (stats.pc = "daily" /\ stats.commits.type = "dict"
        /\ \A k \in DOMAIN InputRecords : Parsable(InputRecords[k]))
        => CountsAre(stats.result, InputDates, 0)

\* C7: for every collection of commit records (here: every dict keyed by
\* hash, the argument get_project_stats documents), get_project_stats skips
\* the records with no usable project (repo absent or None) and counts the
\* others by repo: the values sum to the number of records that carry a
\* project and no bucket is keyed by an absent or None project.
C7_ProjectCounts ==
    (stats.pc = "project" /\ stats.commits.type = "dict") =>
        CountsAre(stats.result, InputProjects, None)

\* the same for dicts keyed by hash whose records all carry a project
C7_ProjectCountsOfAttributedDict ==
    (stats.pc = "project" /\ stats.commits.type = "dict"
        /\ \A k \in DOMAIN InputRecords : Attributed(InputRecords[k]))
        => CountsAre(stats.result, InputProjects, None)

----------------------------------------------------------------------------
(* Claims about the script, under SpecRun *)

Ended == run.pc \in {"done", "crashed"}
DiscoveryFailed ==
    run.error.in \in {"get_bitbucket_commits", "get_github_commits"}

\* C8: a run in which every discovery succeeds obtains the commits of each,
\* concatenates them, writes the daily CSV (header date,commits and one row per
\* distinct date), then writes the project JSON, and completes with both
\* output files written.
C8_RunCompletes ==
    (Ended /\ ~DiscoveryFailed) =>
        /\ run.pc = "done"
        /\ fs[DAILY_STATS_FILENAME].content = CsvText(get_daily_stats(run.all_commits))
        /\ \E p \in Paths :
              /\ fs[p].exists
              /\ fs[p].content = JsonDumps(get_project_stats(run.all_commits))

\* C9: when discovery succeeds and aggregation fails, every newly fetched
\* cache file has been written before, and the statistics outputs are as they
\* were before the run: not created, truncated or partially written.
C9_FailedAggregationLeavesOutputs ==
    (run.pc = "crashed" /\ run.error.in = "get_daily_stats") =>
        /\ \A p \in run.fetched :
              /\ fs[p].exists
              /\ fs[p].mtime = now
              /\ fs[p] # run.before[p]
        /\ fs[DAILY_STATS_FILENAME] = run.before[DAILY_STATS_FILENAME]

\* the half of C9 about the cache files
C9_CachesWrittenBeforeAggregation ==
    run.pc \in {"concatenate", "open", "daily", "done", "crashed"} =>
        \A p \in run.fetched :
            /\ fs[p].exists
            /\ fs[p].mtime = now
            /\ fs[p].content =
                  JsonDumps(IF p = BB_COMMITS_FILENAME
                            THEN run.bitbucket_commits ELSE run.github_commits)

\* no run of the script gets past get_daily_stats
RunNeverCompletes == run.pc # "done"

\* the script's own cache test: a cache file is loaded, and nothing fetched,
\* exactly when it exists and is less than RELOAD_AFTER old
ScriptFreshIffNoFetch ==
    run.pc \in {"github", "concatenate", "open", "daily", "done"} =>
        (BB_COMMITS_FILENAME \notin run.fetched
            <=> /\ run.before[BB_COMMITS_FILENAME].exists
                /\ now - run.before[BB_COMMITS_FILENAME].mtime < RELOAD_AFTER)

====
